---- MODULE Spec2Model ----
(***************************************************************************)
(* SCADA testbed: the master's polling and status aggregation               *)
(* (docker/scada-server/scada_master.py), the RTU outstation's measurement  *)
(* loop (docker/rtu-simulator/rtu_outstation.py) and the data logger's      *)
(* polling loop (docker/monitoring/data_logger.py).                         *)
(*                                                                         *)
(* The three programs run as separate processes.  They share no memory:     *)
(* the master reads the RTUs' log files and the logger queries the master   *)
(* over HTTP.  File contents and HTTP outcomes are therefore inputs of the  *)
(* operation that reads them, drawn from small sets.                        *)
(*                                                                         *)
(* Specifications:                                                          *)
(*   Spec         the master's poll and status operations, one at a time    *)
(*   SpecPages    the master's measurements route over its histories        *)
(*   SpecThreads  start(), stop() and the loop threads of each service      *)
(*   FairThreads  SpecThreads with every spawned loop thread scheduled      *)
(*   SpecConc     the master's poll loop and request handlers interleaved   *)
(*                statement by statement                                    *)
(*   SpecSim      the RTU's tick over every simulator configuration         *)
(*   SpecLogs     the logger's polls and its read routes                    *)
(***************************************************************************)
EXTENDS Integers, Sequences, FiniteSets, TLC

\* ------------------------------------------------------------------ bounds

\* datetime.now() takes the values 1..MaxClock.
MaxClock == 2
\* Length of the in-memory history after which it is trimmed.  The code keeps
\* 1000 entries (scada_master.py:88-89); the model keeps the same trimming rule
\* with a small capacity so that overflow is reached.
HistoryCapacity == 3
\* Loop threads one service may spawn (start() calls per service).
MaxThreads == 2
\* Polls the logger counts (total_records + errors) before its loops idle.
MaxPolls == 2
\* Lines the audit log file holds when GET /api/logs reads it.
MaxLogLines == 2
\* Widest configured range of a simulator field, in grid units.
MaxSpan == 2
\* Length of the RTU's in-memory ring after which it is trimmed.  The code keeps
\* 100 entries (rtu_outstation.py:168-169); scaled like HistoryCapacity.
RingCapacity == 2

\* --------------------------------------------------------------- constants

\* The configured outstations: self.outstations has the keys 1 and 2.
Outstations == {1, 2}

\* Python's None, for last_update.get(rtu_id) and a missing measurement.
None == 0

\* The three programs of the repository.
Processes == {"rtu", "master", "logger"}

ConnectionStatus == {"DISCONNECTED", "CONNECTED", "ERROR"}

\* The samples a log line can hold: two values that can be told apart, which
\* is what the order of a history needs.
Samples == {1, 2}

\* What f.readlines()[-1] of an RTU log file can be: no file or no line,
\* a complete JSON line holding a sample, or a line json.loads rejects.
NoLine == [kind |-> "none", sample |-> None]
BadLine == [kind |-> "malformed", sample |-> None]
GoodLine(s) == [kind |-> "json", sample |-> s]
LastLines == {NoLine, BadLine} \cup {GoodLine(s) : s \in Samples}

VARIABLES
    process,            \* which program this run is a run of
    clock,              \* datetime.now()
    connection_status,  \* master: outstations[id]['connection_status']
    last_update,        \* master: last_update.get(id)
    measurement_data,   \* master: measurement_data[id]
    measurement_history, \* RTU: self.measurement_history
    outstation_running, \* RTU: self.outstation.running (MockDNP3Outstation)
    outstation,         \* RTU: what self.outstation is, and how it came to be
    config,             \* RTU: the simulator's min_* and max_* of each field
    simulator,          \* RTU: the simulator's voltage, current, frequency, temperature
    stats,              \* logger: self.stats['global']
    audit_entries,      \* logger: entries this process has appended to scada_status.jsonl
    call,               \* the last operation called, its inputs and its return value
    running,            \* self.running of the process
    threads,            \* the loop threads start() has spawned, each by its position
    poll_pc,            \* master: where the polling thread is inside poll_outstations
    status_pc,          \* master: where a status request is inside get_current_status
    status_local        \* master: the `status` dictionary that request is building

vars == <<process, clock, connection_status, last_update, measurement_data,
          measurement_history, outstation_running, outstation, config, simulator,
          stats, audit_entries, call, running, threads,
          poll_pc, status_pc, status_local>>

masterVars == <<connection_status, last_update, measurement_data>>
rtuVars == <<measurement_history, outstation_running, outstation, config, simulator>>
loggerVars == <<stats, audit_entries>>
threadVars == <<running, threads>>
concVars == <<poll_pc, status_pc, status_local>>

\* ----------------------------------------------------------------- helpers

Min(a, b) == IF a < b THEN a ELSE b
Max(a, b) == IF a > b THEN a ELSE b

\* Python's s[a:b] for a list s and integers a, b (0-based, negative indices
\* count from the end, out-of-range indices are clipped).
PyIndex(n, i) == IF i < 0 THEN Max(n + i, 0) ELSE Min(i, n)
PySlice(s, a, b) ==
    LET lo == PyIndex(Len(s), a)
        hi == PyIndex(Len(s), b)
    IN  IF lo < hi THEN SubSeq(s, lo + 1, hi) ELSE << >>
\* Python's s[a:]
PySliceFrom(s, a) == SubSeq(s, PyIndex(Len(s), a) + 1, Len(s))

\* ------------------------------------------------------------ construction

\* SCADAMasterServer.__init__ and _configure_outstations: both outstations
\* DISCONNECTED, no last_update, empty measurement_data, not running.
MasterInit ==
    /\ connection_status = [o \in Outstations |-> "DISCONNECTED"]
    /\ last_update = [o \in Outstations |-> None]
    /\ measurement_data = [o \in Outstations |-> << >>]

\* DNP3OutstationRTU.__init__ with the mock outstation: an empty
\* measurement_history and a MockDNP3Outstation that is not running.
RtuInit ==
    /\ measurement_history = << >>
    /\ outstation_running = FALSE

\* The fields TransformerSimulator walks.  Values are whole numbers of grid
\* units: 0.25 V, 5 A, 0.02 Hz and 0.3 degree.
Fields == {"voltage", "current", "frequency", "temperature"}

\* The half-width of each field's random.uniform step (lines 52, 55, 58, 61):
\* 0.5 V, 5 A, 0.02 Hz, 0.3 degree, in grid units.
StepBound == [voltage |-> 2, current |-> 1, frequency |-> 1, temperature |-> 1]

\* A field's configured range (environment variables MIN_*, MAX_*): a single
\* point, the widest range, and an inverted one (min above max).
Ranges ==
    {[min |-> 0, max |-> 0], [min |-> 0, max |-> MaxSpan], [min |-> MaxSpan, max |-> 0]}
PinnedConfig == [f \in Fields |-> [min |-> 0, max |-> 0]]
\* The configurations tried: every field with any of the ranges.
Configs == [Fields -> Ranges]

\* TransformerSimulator.__init__, lines 44-47: random.uniform(min, max) lies
\* between its two arguments, whichever is larger.
SimulatorInit(configs) ==
    /\ config \in configs
    /\ simulator \in [Fields -> 0..MaxSpan]
    /\ \A f \in Fields :
          /\ simulator[f] >= Min(config[f].min, config[f].max)
          /\ simulator[f] <= Max(config[f].min, config[f].max)

\* How DNP3OutstationRTU.__init__ comes to the stand-in: pydnp3 could not be
\* imported (opendnp3 is None), or _init_dnp3_outstation raised.
Bindings == {"unavailable", "init_raises"}

\* (mutant) the except branch of _init_dnp3_outstation returns nothing.
InitOutstation_ReturnsNone(binding) ==
    IF binding = "unavailable" THEN "mock" ELSE "none"

\* self.outstation after __init__: MockDNP3Outstation from line 126 or from
\* the except branch, line 160.
InitOutstation(binding) ==
    IF binding = "unavailable" THEN "mock" ELSE "mock"

OutstationInit(bindings) ==
    \E binding \in bindings :
        outstation = [binding |-> binding, kind |-> InitOutstation(binding)]

\* DataLogger.__init__: the defaultdict entry stats['global'] as first read.
LoggerInit ==
    /\ stats = [total_records |-> 0, errors |-> 0, last_update |-> None]
    /\ audit_entries = 0

NoCall == [op |-> "none"]

\* No poll cycle and no status request is in progress.
Idle == [o |-> 0, at |-> "idle", latest |-> None, trimmed |-> {}]
ConcInit ==
    /\ poll_pc = Idle
    /\ status_pc = Idle
    /\ status_local = << >>

\* No start() has been called: the flag is clear and no loop thread exists.
ThreadIds == 1..MaxThreads
NoThreads == [t \in ThreadIds |-> "unborn"]

\* ------------------------------------------------- master: poll_outstations

\* (mutant) the except branch resets the record instead of marking it ERROR.
PollStatus_Resets(raised) == IF raised THEN "DISCONNECTED" ELSE "CONNECTED"

\* One pass of the for loop of poll_outstations for outstation o.  The try body
\* logs, sets CONNECTED and stores the timestamp; it never contacts the
\* outstation.  If the try body raises, the handler sets ERROR; last_update is
\* then left as it was (the raise precedes or is the assignment of line 70).
PollStatus(raised) == IF raised THEN "ERROR" ELSE "CONNECTED"
PollLastUpdate(raised, old, now) == IF raised THEN old ELSE now

\* (mutant) one try around the whole for loop: the first raise ends the cycle
\* and the outstations after it are not attempted.
PollOutstations_Aborts(raised, listening) ==
    LET reached(o) == \A a \in raised : o <= a
    IN
    /\ connection_status' =
          [o \in Outstations |->
              IF reached(o) THEN PollStatus(o \in raised) ELSE connection_status[o]]
    /\ last_update' =
          [o \in Outstations |->
              IF reached(o) THEN PollLastUpdate(o \in raised, last_update[o], clock)
              ELSE last_update[o]]
    /\ UNCHANGED measurement_data
    /\ call' = [op |-> "poll_outstations", raised |-> raised, listening |-> listening]

\* poll_outstations(): every configured outstation, in configuration order.
\* raised is the set of outstations whose try body raised; listening is the set
\* of outstations that have a DNP3 endpoint up at that moment, which the code
\* does not consult.
PollOutstations(raised, listening) ==
    /\ connection_status' = [o \in Outstations |-> PollStatus(o \in raised)]
    /\ last_update' =
          [o \in Outstations |-> PollLastUpdate(o \in raised, last_update[o], clock)]
    /\ UNCHANGED measurement_data
    /\ call' = [op |-> "poll_outstations", raised |-> raised, listening |-> listening]

\* ---------------------------------------- master: read_measurements_from_log

\* (mutant) the trim keeps the first HistoryCapacity entries: [:1000] for [-1000:].
AppendBounded_KeepsOldest(history, latest) ==
    LET appended == Append(history, latest)
    IN  IF Len(appended) > HistoryCapacity
        THEN PySlice(appended, 0, HistoryCapacity)
        ELSE appended

\* Lines 85-89: append, then keep only the last HistoryCapacity entries.
AppendBounded(history, latest) ==
    LET appended == Append(history, latest)
    IN  IF Len(appended) > HistoryCapacity
        THEN PySliceFrom(appended, 0 - HistoryCapacity)
        ELSE appended

\* measurement_data[rtu_id] after read_measurements_from_log(rtu_id) when the
\* log file ends with `line`: a missing file, an empty file and a line that
\* json.loads rejects (the except branch) leave it as it was.
HistoryAfterRead(history, line) ==
    IF line.kind = "json" THEN AppendBounded(history, line.sample) ELSE history

\* Whether the read takes the branch of line 88 (the history is trimmed).
Trims(history, line) == line.kind = "json" /\ Len(history) + 1 > HistoryCapacity

\* The value read_measurements_from_log returns: the parsed last line, or None.
ReadResult(line) == IF line.kind = "json" THEN line.sample ELSE None

\* ----------------------------------------------- master: get_current_status

\* One entry of status['outstations'] (the static name, host and port are left out).
StatusBlock(o, line) ==
    [connection_status |-> connection_status[o],
     last_update |-> last_update[o],
     latest_measurement |-> ReadResult(line)]

\* get_current_status(), also GET /api/status and GET /api/outstation/<id>:
\* for every outstation it calls read_measurements_from_log, which appends to
\* measurement_data.  lines[o] is the last line of outstation o's log file.
GetCurrentStatus(lines) ==
    /\ measurement_data' =
          [o \in Outstations |-> HistoryAfterRead(measurement_data[o], lines[o])]
    /\ UNCHANGED <<connection_status, last_update>>
    /\ call' = [op |-> "get_current_status",
                status |-> [o \in Outstations |-> StatusBlock(o, lines[o])],
                trimmed |-> {o \in Outstations : Trims(measurement_data[o], lines[o])}]

\* -------------------------------------------------- master: get_measurements

\* The limit and offset query arguments tried (type=int accepts a sign).
Limits == {1, 2, 10}
Offsets == {-1, 0, 1, 2, 10, 20}

\* (mutant) the end of the slice forgets the offset: [offset:limit].
Page_EndIsLimit(measurements, limit, offset) == PySlice(measurements, offset, limit)

\* measurements[offset:offset+limit]
Page(measurements, limit, offset) == PySlice(measurements, offset, offset + limit)

\* GET /api/measurements/<rtu_id>?limit=&offset=
GetMeasurements(rtu_id, limit, offset) ==
    /\ UNCHANGED masterVars
    /\ call' = [op |-> "get_measurements", rtu_id |-> rtu_id,
                total_records |-> Len(measurement_data[rtu_id]),
                limit |-> limit, offset |-> offset,
                measurements |-> Page(measurement_data[rtu_id], limit, offset)]

\* ------------------------------------------------------------------- time

\* datetime.now() moves on.
Tick ==
    /\ clock < MaxClock
    /\ clock' = clock + 1
    /\ UNCHANGED <<process, concVars, masterVars, rtuVars, loggerVars, call, threadVars>>

\* ------------------------------------------- Spec: the master's operations

Init ==
    /\ process = "master"
    /\ clock = 1
    /\ MasterInit
    /\ RtuInit
    /\ OutstationInit({"unavailable"})
    /\ SimulatorInit({PinnedConfig})
    /\ LoggerInit
    /\ ConcInit
    /\ call = NoCall
    /\ running = FALSE
    /\ threads = NoThreads

DoPoll ==
    /\ \E raised \in SUBSET Outstations, listening \in SUBSET Outstations :
          PollOutstations(raised, listening)
    /\ UNCHANGED <<process, concVars, clock, rtuVars, loggerVars, threadVars>>

DoStatus ==
    /\ \E lines \in [Outstations -> LastLines] : GetCurrentStatus(lines)
    /\ UNCHANGED <<process, concVars, clock, rtuVars, loggerVars, threadVars>>

DoMeasurements ==
    /\ \E rtu_id \in Outstations, limit \in Limits, offset \in Offsets :
          GetMeasurements(rtu_id, limit, offset)
    /\ UNCHANGED <<process, concVars, clock, rtuVars, loggerVars, threadVars>>

\* The methods of SCADAMasterServer that the poll loop and the status routes
\* call, in any order, as time passes.
Next == DoPoll \/ DoStatus \/ Tick

Spec == Init /\ [][Next]_vars

\* The measurements route over the histories that status reads build up.
NextPages == DoStatus \/ DoMeasurements

SpecPages == Init /\ [][NextPages]_vars

\* ------------------------------------------------- RTU: update_measurements

\* (mutant) the trim keeps the first RingCapacity entries: [:100] for [-100:].
RingAppend_KeepsOldest(ring, sample) ==
    LET appended == Append(ring, sample)
    IN  IF Len(appended) > RingCapacity
        THEN PySlice(appended, 0, RingCapacity)
        ELSE appended

\* Lines 165-169: append, then keep only the last RingCapacity entries.
RingAppend(ring, sample) ==
    LET appended == Append(ring, sample)
    IN  IF Len(appended) > RingCapacity
        THEN PySliceFrom(appended, 0 - RingCapacity)
        ELSE appended

\* (mutant) the step is added twice.
Walk_Twice(v, d) == v + d + d

\* self.voltage += random.uniform(-0.5, 0.5), and the same for the others.
Walk(v, d) == v + d

\* (mutant) only the upper bound is enforced.
Clamp_UpperOnly(lo, hi, v) == Min(hi, v)

\* max(self.min_voltage, min(self.max_voltage, self.voltage))
Clamp(lo, hi, v) == Max(lo, Min(hi, v))

\* One field after lines 52-53 (55-56, 58-59, 61-62) when random.uniform
\* draws d.
FieldTick(cfg, sim, f, d) == Clamp(cfg[f].min, cfg[f].max, Walk(sim[f], d))

\* What field f can be after one call of get_measurements: random.uniform
\* draws any step from -StepBound[f] to StepBound[f].
FieldTicks(cfg, sim, f) ==
    {FieldTick(cfg, sim, f, d) : d \in (0 - StepBound[f])..StepBound[f]}

\* What the four fields can be after one call of get_measurements: each field
\* has its own draw.
SimulatorTicks(cfg, sim) ==
    {[voltage |-> v, current |-> c, frequency |-> q, temperature |-> k] :
        v \in FieldTicks(cfg, sim, "voltage"),
        c \in FieldTicks(cfg, sim, "current"),
        q \in FieldTicks(cfg, sim, "frequency"),
        k \in FieldTicks(cfg, sim, "temperature")}

\* update_measurements(): take a sample (identified by its timestamp), keep it
\* in the ring, append it to the log file.  written says whether the append
\* succeeded; a failure is caught and logged (lines 173-177).  The sample is
\* returned.
UpdateMeasurements(written) ==
    /\ simulator' \in SimulatorTicks(config, simulator)
    /\ measurement_history' = RingAppend(measurement_history, clock)
    /\ UNCHANGED <<outstation_running, outstation, config>>
    /\ call' = [op |-> "update_measurements", written |-> written, sample |-> clock,
                trimmed |-> (Len(measurement_history) + 1 > RingCapacity)]

\* ------------------------------------------------ logger: poll_scada_server

\* What requests.get(.../api/status) and response.json() can do:
\*   ok                  status 200 and a JSON body
\*   bad_status          any other status code
\*   request_exception   unreachable, timeout (requests raises RequestException)
\*   bad_body_caught     status 200, response.json() raises a RequestException
\*                       (requests.exceptions.JSONDecodeError, requests >= 2.27)
\*   bad_body_raised     status 200, response.json() raises a plain ValueError
\*                       (older requests), which poll_scada_server does not catch
PollOutcomes ==
    {"ok", "bad_status", "request_exception", "bad_body_caught", "bad_body_raised"}

\* _process_measurements: the write is attempted, the counter is incremented
\* whether or not the write succeeded.
ProcessMeasurements(st, now) ==
    [st EXCEPT !.total_records = @ + 1, !.last_update = now]

\* (mutant) a successful poll clears the error counter.
StatsAfterPoll_ClearsErrors(st, outcome, now) ==
    CASE outcome = "ok" -> [ProcessMeasurements(st, now) EXCEPT !.errors = 0]
      [] outcome \in {"bad_status", "request_exception", "bad_body_caught"} ->
            [st EXCEPT !.errors = @ + 1]
      [] OTHER -> st

\* stats['global'] after poll_scada_server.
StatsAfterPoll(st, outcome, now) ==
    CASE outcome = "ok" -> ProcessMeasurements(st, now)
      [] outcome \in {"bad_status", "request_exception", "bad_body_caught"} ->
            [st EXCEPT !.errors = @ + 1]
      [] OTHER -> st

\* poll_scada_server(): written says whether the status-file append succeeded
\* (it is attempted only for outcome "ok").
PollScadaServer(outcome, written) ==
    /\ stats' = StatsAfterPoll(stats, outcome, clock)
    /\ audit_entries' = IF outcome = "ok" /\ written THEN audit_entries + 1 ELSE audit_entries
    /\ call' = [op |-> "poll_scada_server", outcome |-> outcome,
                written |-> (outcome = "ok" /\ written)]

\* get_statistics(), also GET /api/stats: the counters as they are.
GetStatistics ==
    /\ process = "logger"
    /\ call' = [op |-> "get_statistics", stats |-> stats]
    /\ UNCHANGED <<process, concVars, clock, masterVars, rtuVars, loggerVars, threadVars>>

\* ------------------------------------------------------- logger: get_logs

\* A line of scada_status.jsonl: an entry json.loads accepts (told apart by a
\* number) or a line it rejects.
Malformed == 0
LogEntries == {1, 2}
AuditLogs == UNION {[1..n -> LogEntries \cup {Malformed}] : n \in 0..MaxLogLines}
LogLimits == {0, 1, 2, 5}

\* Whether the name `request` is bound in data_logger.py: line 14 imports
\* Flask and jsonify only, so line 139 raises NameError.
RequestIsBound == FALSE

\* Lines 142-151: json.loads over lines[-limit:] inside one try; a line that
\* does not parse raises, and the except branch falls through to the empty
\* answer.
RecentLogs(lines, limit) ==
    LET tail == PySliceFrom(lines, 0 - limit)
    IN  IF \E i \in 1..Len(tail) : tail[i] = Malformed THEN << >> ELSE tail

\* GET /api/logs?limit=: line 139 is outside the try, so its NameError makes
\* Flask answer 500; otherwise the answer is 200 with RecentLogs.
GetLogsResponse(lines, limit) ==
    IF RequestIsBound
    THEN [status |-> 200, logs |-> RecentLogs(lines, limit)]
    ELSE [status |-> 500, logs |-> << >>]

GetLogs(lines, limit) ==
    /\ process = "logger"
    /\ call' = [op |-> "get_logs", lines |-> lines, limit |-> limit,
                response |-> GetLogsResponse(lines, limit)]
    /\ UNCHANGED <<stats, audit_entries>>

\* --------------------------------------------- start(), stop() and the loops

\* A loop thread is unborn, at the test of `while self.running` ("while"),
\* about to run the loop body ("work"), in time.sleep ("sleep"), or has left
\* the loop ("done").
LiveThreads == {t \in ThreadIds : threads[t] \in {"while", "work", "sleep"}}
Unborn == {t \in ThreadIds : threads[t] = "unborn"}

\* Thread(target=self._polling_loop, daemon=True).start(): every call makes a
\* new thread; nothing looks at the running flag or at an earlier thread.
Spawn(ths) ==
    LET t == CHOOSE u \in ThreadIds :
                 ths[u] = "unborn" /\ \A v \in ThreadIds : ths[v] = "unborn" => u <= v
    IN  [ths EXCEPT ![t] = "while"]

\* start() of DNP3OutstationRTU, SCADAMasterServer and DataLogger.  The RTU
\* also starts its (mock) outstation.
Start ==
    /\ Unborn # {}
    /\ running' = TRUE
    /\ threads' = Spawn(threads)
    /\ outstation_running' =
          IF process = "rtu" /\ outstation.kind # "none" THEN TRUE ELSE outstation_running
    /\ call' = [op |-> "start"]
    /\ UNCHANGED <<process, concVars, clock, masterVars, measurement_history,
                   outstation, config, simulator, loggerVars>>

\* stop(): clears the flag and nothing else.
Stop ==
    /\ running' = FALSE
    /\ call' = [op |-> "stop"]
    /\ UNCHANGED <<process, concVars, clock, masterVars, rtuVars, loggerVars, threads>>

\* The logger's counters are capped: a loop enters its body only while the
\* polls counted and those in progress stay below MaxPolls.
Working == {t \in ThreadIds : threads[t] = "work"}
MayWork ==
    process = "logger" =>
        stats.total_records + stats.errors + Cardinality(Working) < MaxPolls

\* (mutant) `while True:`: the loop never looks at the flag.
LoopTest_IgnoresFlag(t) ==
    /\ threads[t] = "while"
    /\ MayWork
    /\ threads' = [threads EXCEPT ![t] = "work"]
    /\ UNCHANGED <<process, concVars, clock, masterVars, rtuVars, loggerVars, call, running>>

\* `while self.running:` evaluated by thread t.
LoopTest(t) ==
    /\ threads[t] = "while"
    /\ running => MayWork
    /\ threads' = [threads EXCEPT ![t] = IF running THEN "work" ELSE "done"]
    /\ UNCHANGED <<process, concVars, clock, masterVars, rtuVars, loggerVars, call, running>>

\* (mutant) update_measurements has no try around the write: a failed write
\* raises into the loop's except and the sleep is skipped.
RtuWork_WriteRaises(t) ==
    /\ process = "rtu"
    /\ threads[t] = "work"
    /\ \E written \in BOOLEAN :
          /\ UpdateMeasurements(written)
          /\ threads' = [threads EXCEPT ![t] = IF written THEN "sleep" ELSE "while"]
    /\ UNCHANGED <<process, concVars, clock, masterVars, loggerVars, running>>

\* The RTU's loop body: self.update_measurements(), then on to time.sleep.
RtuWork(t) ==
    /\ process = "rtu"
    /\ threads[t] = "work"
    /\ \E written \in BOOLEAN : UpdateMeasurements(written)
    /\ threads' = [threads EXCEPT ![t] = "sleep"]
    /\ UNCHANGED <<process, concVars, clock, masterVars, loggerVars, running>>

\* The master's loop body: self.poll_outstations(), then on to time.sleep.
MasterWork(t) ==
    /\ process = "master"
    /\ threads[t] = "work"
    /\ \E raised \in SUBSET Outstations, listening \in SUBSET Outstations :
          PollOutstations(raised, listening)
    /\ threads' = [threads EXCEPT ![t] = "sleep"]
    /\ UNCHANGED <<process, concVars, clock, rtuVars, loggerVars, running>>

\* The logger's loop body: self.poll_scada_server(), then on to time.sleep;
\* when the call raises, the loop's except logs and the sleep is skipped.
LoggerWork(t) ==
    /\ process = "logger"
    /\ threads[t] = "work"
    /\ \E outcome \in PollOutcomes, written \in BOOLEAN :
          /\ PollScadaServer(outcome, written)
          /\ threads' = [threads EXCEPT
                           ![t] = IF outcome = "bad_body_raised" THEN "while" ELSE "sleep"]
    /\ UNCHANGED <<process, concVars, clock, masterVars, rtuVars, running>>

\* time.sleep(self.poll_interval) returns.
LoopWake(t) ==
    /\ threads[t] = "sleep"
    /\ threads' = [threads EXCEPT ![t] = "while"]
    /\ UNCHANGED <<process, concVars, clock, masterVars, rtuVars, loggerVars, call, running>>

LoopStep(t) == LoopTest(t) \/ RtuWork(t) \/ MasterWork(t) \/ LoggerWork(t) \/ LoopWake(t)

\* A run of one of the three programs, from its construction.
InitThreads ==
    /\ process \in Processes
    /\ clock = 1
    /\ MasterInit
    /\ RtuInit
    /\ OutstationInit(IF process = "rtu" THEN Bindings ELSE {"unavailable"})
    /\ SimulatorInit({PinnedConfig})
    /\ LoggerInit
    /\ ConcInit
    /\ call = NoCall
    /\ running = FALSE
    /\ threads = NoThreads

NextThreads ==
    \/ Start
    \/ Stop
    \/ \E t \in ThreadIds : LoopTest(t)
    \/ \E t \in ThreadIds : RtuWork(t)
    \/ \E t \in ThreadIds : MasterWork(t)
    \/ \E t \in ThreadIds : LoggerWork(t)
    \/ \E t \in ThreadIds : LoopWake(t)
    \/ GetStatistics
    \/ Tick

SpecThreads == InitThreads /\ [][NextThreads]_vars

\* Python schedules every live thread: a loop thread that can take its next
\* step eventually takes it.
FairThreads ==
    /\ SpecThreads
    /\ \A t \in ThreadIds : WF_vars(LoopStep(t))

\* ------------------------------------ SpecSim: the RTU's tick, called alone

\* An RTU constructed with any of the configurations, before start().
InitSim ==
    /\ process = "rtu"
    /\ clock = 1
    /\ MasterInit
    /\ RtuInit
    /\ OutstationInit(Bindings)
    /\ SimulatorInit(Configs)
    /\ LoggerInit
    /\ ConcInit
    /\ call = NoCall
    /\ running = FALSE
    /\ threads = NoThreads

\* update_measurements() as one iteration of _measurement_loop calls it.
DoUpdateMeasurements ==
    /\ \E written \in BOOLEAN : UpdateMeasurements(written)
    /\ UNCHANGED <<process, concVars, clock, masterVars, loggerVars, threadVars>>

NextSim == DoUpdateMeasurements

SpecSim == InitSim /\ [][NextSim]_vars

\* ------------------------------------- SpecLogs: the logger's operations

InitLogs == InitThreads /\ process = "logger"

\* poll_scada_server() called once, as a loop iteration calls it.
DoPollScada ==
    /\ stats.total_records + stats.errors < MaxPolls
    /\ \E outcome \in PollOutcomes, written \in BOOLEAN : PollScadaServer(outcome, written)
    /\ UNCHANGED <<process, concVars, clock, masterVars, rtuVars, threadVars>>

DoGetLogs ==
    /\ \E lines \in AuditLogs, limit \in LogLimits : GetLogs(lines, limit)
    /\ UNCHANGED <<process, concVars, clock, masterVars, rtuVars, threadVars>>

\* The logger's polls and its two read routes, in any order.
NextLogs == DoPollScada \/ DoGetLogs \/ GetStatistics

SpecLogs == InitLogs /\ [][NextLogs]_vars

\* ------------------- SpecConc: the master's threads, statement by statement

\* The outstation after o in self.outstations.items(), 0 after the last.
NextOutstation(o) == IF o + 1 \in Outstations THEN o + 1 ELSE 0
At(o, where) ==
    IF o = 0 THEN Idle ELSE [o |-> o, at |-> where, latest |-> None, trimmed |-> {}]

\* The polling thread enters poll_outstations: the for loop reaches the first
\* outstation's try.
PollEnter ==
    /\ poll_pc = Idle
    /\ poll_pc' = At(1, "try")
    /\ UNCHANGED <<process, clock, masterVars, rtuVars, loggerVars, call, threadVars,
                   status_pc, status_local>>

\* Line 69: connection_status becomes CONNECTED; line 70 has not run yet.
PollConnect ==
    /\ poll_pc.at = "try"
    /\ connection_status' = [connection_status EXCEPT ![poll_pc.o] = "CONNECTED"]
    /\ poll_pc' = [poll_pc EXCEPT !.at = "stamp"]
    /\ UNCHANGED <<process, clock, last_update, measurement_data, rtuVars, loggerVars,
                   call, threadVars, status_pc, status_local>>

\* Line 70: last_update gets the timestamp; on to the next outstation.
PollStamp ==
    /\ poll_pc.at = "stamp"
    /\ last_update' = [last_update EXCEPT ![poll_pc.o] = clock]
    /\ poll_pc' = At(NextOutstation(poll_pc.o), "try")
    /\ UNCHANGED <<process, clock, connection_status, measurement_data, rtuVars,
                   loggerVars, call, threadVars, status_pc, status_local>>

\* Lines 72-74: the try body raised; ERROR, and on to the next outstation.
PollRaise ==
    /\ poll_pc.at \in {"try", "stamp"}
    /\ connection_status' = [connection_status EXCEPT ![poll_pc.o] = "ERROR"]
    /\ poll_pc' = At(NextOutstation(poll_pc.o), "try")
    /\ UNCHANGED <<process, clock, last_update, measurement_data, rtuVars, loggerVars,
                   call, threadVars, status_pc, status_local>>

\* A request thread enters get_current_status: an empty status dictionary,
\* the for loop at the first outstation.
StatusEnter ==
    /\ status_pc = Idle
    /\ status_pc' = At(1, "read")
    /\ status_local' = << >>
    /\ UNCHANGED <<process, clock, masterVars, rtuVars, loggerVars, call, threadVars,
                   poll_pc>>

\* Lines 79-85 of read_measurements_from_log: the last line is read and parsed
\* and, if that worked, appended.  The length test of line 88 comes next.
StatusRead(line) ==
    /\ status_pc.at = "read"
    /\ IF line.kind = "json"
       THEN /\ measurement_data' =
                  [measurement_data EXCEPT ![status_pc.o] = Append(@, line.sample)]
            /\ status_pc' = [status_pc EXCEPT !.at = "trim", !.latest = line.sample]
       ELSE /\ UNCHANGED measurement_data
            /\ status_pc' = [status_pc EXCEPT !.at = "block", !.latest = None]
    /\ UNCHANGED <<process, clock, connection_status, last_update, rtuVars, loggerVars,
                   call, threadVars, poll_pc, status_local>>

\* Lines 88-89: the history is cut back to its last HistoryCapacity entries.
StatusTrim ==
    /\ status_pc.at = "trim"
    /\ measurement_data' =
          [measurement_data EXCEPT
              ![status_pc.o] = IF Len(@) > HistoryCapacity
                               THEN PySliceFrom(@, 0 - HistoryCapacity) ELSE @]
    /\ status_pc' =
          [status_pc EXCEPT
              !.at = "block",
              !.trimmed = IF Len(measurement_data[status_pc.o]) > HistoryCapacity
                          THEN @ \cup {status_pc.o} ELSE @]
    /\ UNCHANGED <<process, clock, connection_status, last_update, rtuVars, loggerVars,
                   call, threadVars, poll_pc, status_local>>

\* Lines 107-114: the outstation's block is filled in from connection_status
\* and last_update as they are now.  After the last outstation the dictionary
\* is returned.
StatusFill ==
    /\ status_pc.at = "block"
    /\ LET o == status_pc.o
           block == [connection_status |-> connection_status[o],
                     last_update |-> last_update[o],
                     latest_measurement |-> status_pc.latest]
           filled == [p \in 1..o |-> IF p = o THEN block ELSE status_local[p]]
       IN  IF NextOutstation(o) = 0
           THEN /\ call' = [op |-> "get_current_status", status |-> filled,
                            trimmed |-> status_pc.trimmed]
                /\ status_local' = << >>
                /\ status_pc' = Idle
           ELSE /\ UNCHANGED call
                /\ status_local' = filled
                /\ status_pc' = [At(NextOutstation(o), "read") EXCEPT
                                   !.trimmed = status_pc.trimmed]
    /\ UNCHANGED <<process, clock, masterVars, rtuVars, loggerVars, threadVars, poll_pc>>

\* GET /api/measurements/<rtu_id> with the default limit and offset, handled
\* in one piece.
DefaultLimit == 100
DefaultOffset == 0
MeasurementsRequest ==
    /\ \E rtu_id \in Outstations : GetMeasurements(rtu_id, DefaultLimit, DefaultOffset)
    /\ UNCHANGED <<process, concVars, clock, rtuVars, loggerVars, threadVars>>

\* The last lines the status request finds here: the samples need not be told
\* apart for what the threads can see of each other.
ConcLines == {NoLine, BadLine, GoodLine(1)}

\* The master with its polling thread and its request threads running at once:
\* poll cycles, one status request at a time and measurements requests
\* interleave at the statements above.
NextConc ==
    \/ PollEnter
    \/ PollConnect
    \/ PollStamp
    \/ PollRaise
    \/ StatusEnter
    \/ \E line \in ConcLines : StatusRead(line)
    \/ StatusTrim
    \/ StatusFill
    \/ MeasurementsRequest

SpecConc == Init /\ [][NextConc]_vars

\* =================================================================== claims

\* The last n entries of s, and the first n, written out by position.
LastN(s, n) ==
    LET k == Min(n, Len(s)) IN [i \in 1..k |-> s[Len(s) - k + i]]
FirstN(s, n) ==
    LET k == Min(n, Len(s)) IN [i \in 1..k |-> s[i]]

\* A step that is a call of poll_outstations: the DoPoll step whose inputs
\* call' records.
PollStep ==
    /\ call'.op = "poll_outstations"
    /\ UNCHANGED <<process, concVars, clock, rtuVars, loggerVars, threadVars>>
    /\ PollOutstations(call'.raised, call'.listening)

\* A step that is a call of get_current_status: it leaves the call's record
\* in `call` and is not the passing of time (Tick keeps the last record).
StatusStep == call'.op = "get_current_status" /\ ~Tick

\* A step that is a call of the measurements route.
MeasurementsStep == call'.op = "get_measurements" /\ DoMeasurements

\* C1: get_current_status is a pure read: a call leaves every outstation's
\* connection_status, last_update and history as they were, and the history
\* changes only by a poll.
C1_StatusIsPureRead ==
    [][/\ StatusStep => UNCHANGED masterVars
       /\ measurement_data' # measurement_data => PollStep]_vars

\* C2: after poll_outstations every outstation whose poll succeeded is
\* CONNECTED, has last_update at the poll's timestamp, and has gained the
\* polled sample as the newest entry of its history.
C2_PollRecordsSample ==
    [][PollStep =>
          \A o \in Outstations \ call'.raised :
              /\ connection_status'[o] = "CONNECTED"
              /\ last_update'[o] = clock
              /\ \E sample \in Samples :
                    measurement_data'[o] =
                        LastN(Append(measurement_data[o], sample), HistoryCapacity)]_vars

\* C3: an outstation whose transport fails during a poll cycle (nothing is
\* listening at its address) is ERROR after the cycle with its history as
\* before; with one outstation failing and the other up, the failing one is
\* ERROR and the other CONNECTED.
C3_TransportFailureIsError ==
    [][PollStep =>
          \A o \in Outstations :
              /\ o \notin call'.listening =>
                    /\ connection_status'[o] = "ERROR"
                    /\ measurement_data'[o] = measurement_data[o]
              /\ o \in call'.listening => connection_status'[o] = "CONNECTED"]_vars

\* C4: every history holds at most HistoryCapacity entries; a read that
\* returns a sample leaves the history as the old one with that sample
\* appended at the end and the oldest entries beyond the capacity evicted;
\* nothing else changes a history.
C4_HistoryBoundedFifo ==
    /\ [](\A o \in Outstations : Len(measurement_data[o]) <= HistoryCapacity)
    /\ [][/\ StatusStep => \A o \in Outstations :
               call'.status[o].latest_measurement # None =>
                   measurement_data'[o] =
                       LastN(Append(measurement_data[o],
                                    call'.status[o].latest_measurement),
                             HistoryCapacity)
          /\ \A o \in Outstations :
               measurement_data'[o] # measurement_data[o] =>
                   (StatusStep /\ call'.status[o].latest_measurement # None)]_vars

\* C4 witness: a status read has just trimmed outstation 1's history, which
\* holds the newest sample last and differing samples.
C4_Witness ==
    /\ call.op = "get_current_status"
    /\ 1 \in call.trimmed
    /\ Len(measurement_data[1]) = HistoryCapacity
    /\ measurement_data[1][HistoryCapacity] = call.status[1].latest_measurement
    /\ measurement_data[1][1] # measurement_data[1][HistoryCapacity]

\* C5: every record starts DISCONNECTED; its status is always one of the
\* three values; only poll_outstations changes it, to CONNECTED when the
\* attempt succeeded and to ERROR when it failed; DISCONNECTED is never
\* entered again after a poll.
C5_StatusMachine ==
    /\ \A o \in Outstations : connection_status[o] = "DISCONNECTED"
    /\ [](\A o \in Outstations : connection_status[o] \in ConnectionStatus)
    /\ [][\A o \in Outstations :
             /\ connection_status'[o] # connection_status[o] =>
                   /\ PollStep
                   /\ connection_status'[o] =
                         IF o \in call'.raised THEN "ERROR" ELSE "CONNECTED"
             /\ PollStep => connection_status'[o] # "DISCONNECTED"
             /\ connection_status[o] # "DISCONNECTED" =>
                   connection_status'[o] # "DISCONNECTED"]_vars

\* C5 witness: outstation 1 was CONNECTED by one poll and is ERROR after a
\* later one (its last_update is from the successful poll).
C5_Witness ==
    /\ call.op = "poll_outstations"
    /\ connection_status[1] = "ERROR"
    /\ last_update[1] # None
    /\ connection_status[2] = "CONNECTED"

\* C6: in a poll cycle in which the attempt for outstation a fails, every
\* other outstation b is still attempted and ends as its own attempt alone
\* decides: CONNECTED at the poll's timestamp when it succeeded, ERROR with
\* last_update kept when it failed, its history untouched.
C6_FailureIsIsolated ==
    [][PollStep =>
          \A a \in call'.raised : \A b \in Outstations \ {a} :
              /\ b \notin call'.raised =>
                    connection_status'[b] = "CONNECTED" /\ last_update'[b] = clock
              /\ b \in call'.raised =>
                    connection_status'[b] = "ERROR" /\ last_update'[b] = last_update[b]
              /\ measurement_data'[b] = measurement_data[b]]_vars

\* C6 witness: a cycle in which outstation 1's attempt failed and outstation
\* 2's succeeded at a later time than its previous success.
C6_Witness ==
    /\ call.op = "poll_outstations"
    /\ call.raised = {1}
    /\ connection_status[1] = "ERROR"
    /\ connection_status[2] = "CONNECTED"
    /\ last_update[2] = clock
    /\ last_update[1] # None /\ last_update[1] < clock

\* C7: start() called while the service is already started (no stop() since
\* the last start()) leaves the set of loop threads as it was.
C7_StartIsIdempotent ==
    [][(running /\ Start) => LiveThreads' = LiveThreads]_vars

\* C8: while the running flag is clear no loop thread begins a further tick
\* (a thread already past its test finishes the tick it began), and unless
\* start() is called again every loop thread eventually leaves its loop.
C8_StopIsBounded ==
    /\ [][~running =>
             \A t \in ThreadIds : ~(threads[t] = "while" /\ threads'[t] = "work")]_vars
    /\ []<>(running \/ LiveThreads = {})

\* C8 witness: after stop() a thread that was running its loop has left it.
C8_Witness ==
    /\ ~running
    /\ LiveThreads = {}
    /\ \E t \in ThreadIds : threads[t] = "done"
    /\ call.op \in {"update_measurements", "poll_outstations", "poll_scada_server"}

\* C9: no request sees a half-updated record: no status response shows an
\* outstation CONNECTED without a last_update, and no measurements response
\* reports a history of more than HistoryCapacity entries.
C9_NoTornRead ==
    /\ call.op = "get_current_status" =>
          \A o \in Outstations :
              call.status[o].connection_status = "CONNECTED" =>
                  call.status[o].last_update # None
    /\ call.op = "get_measurements" => call.total_records <= HistoryCapacity

\* C10: two consecutive get_measurements calls for the same outstation, the
\* first with offset 0 and the second with offset = limit, return the first
\* `limit` entries and the next `limit` entries: together the first 2*limit
\* entries of the history (all of it when it is shorter), in order.
C10_Pagination ==
    [][(/\ MeasurementsStep
        /\ call.op = "get_measurements"
        /\ call'.rtu_id = call.rtu_id
        /\ call.offset = 0
        /\ call'.limit = call.limit
        /\ call'.offset = call.limit) =>
          /\ call.measurements = FirstN(measurement_data[call.rtu_id], call.limit)
          /\ call.measurements \o call'.measurements =
                FirstN(measurement_data[call.rtu_id], 2 * call.limit)
          /\ Len(call.measurements) + Len(call'.measurements) =
                Min(2 * call.limit, call'.total_records)]_vars

\* C10 witness: a second page that is not empty, of a history longer than
\* two pages.
C10_Witness ==
    /\ call.op = "get_measurements"
    /\ call.offset = call.limit
    /\ call.measurements # << >>
    /\ call.total_records > 2 * call.limit

\* C11: a measurements request whose offset is negative or at least the
\* number of entries in the history returns an empty measurements list.
C11_OutOfRangeOffsetIsEmpty ==
    (/\ call.op = "get_measurements"
     /\ (call.offset < 0 \/ call.offset >= call.total_records)) =>
        call.measurements = << >>

\* A step that is a call of poll_scada_server by one of the logger's loops.
LoggerPollStep ==
    call'.op = "poll_scada_server" /\ \E t \in ThreadIds : LoggerWork(t)

\* C12: every failed poll of the logger (unreachable, timeout, non-success
\* status, undecodable body) adds exactly one to errors, writes no entry to
\* the audit log and leaves total_records as it was.
C12_FailedPollCountsOneError ==
    [][(LoggerPollStep /\ call'.outcome # "ok") =>
          /\ stats'.errors = stats.errors + 1
          /\ stats'.total_records = stats.total_records
          /\ ~call'.written]_vars

\* C13: total_records and errors never decrease, whatever start(), stop(),
\* polls and statistics reads happen; a statistics read returns them as they
\* are.
C13_CountersNeverDecrease ==
    /\ [][/\ stats'.total_records >= stats.total_records
          /\ stats'.errors >= stats.errors]_vars
    /\ [](call.op = "get_statistics" => call.stats = stats)

\* C13 witness: a statistics read after a stop(), with a successful and a
\* failed poll counted.
C13_Witness ==
    /\ call.op = "get_statistics"
    /\ ~running
    /\ call.stats.total_records >= 1
    /\ call.stats.errors >= 1

\* The entries of s that are not malformed, in order.
RECURSIVE WellFormed(_)
WellFormed(s) ==
    IF s = << >> THEN << >>
    ELSE IF Head(s) = Malformed THEN WellFormed(Tail(s))
         ELSE <<Head(s)>> \o WellFormed(Tail(s))

\* C14: GET /api/logs answers with every well-formed entry among the last
\* `limit` lines of the audit log, in file order, skipping malformed lines
\* one by one; the read leaves the error counter as it was.
C14_RecentLogsSkipsMalformed ==
    /\ [](call.op = "get_logs" =>
            /\ call.response.status = 200
            /\ call.response.logs = WellFormed(LastN(call.lines, call.limit)))
    /\ [][call'.op = "get_logs" /\ DoGetLogs => stats'.errors = stats.errors]_vars

\* C15: in a generator whose field is configured with min <= max, the field
\* lies within [min, max] after construction and after every tick.
C15_FieldsStayInRange ==
    \A f \in Fields :
        config[f].min <= config[f].max =>
            simulator[f] >= config[f].min /\ simulator[f] <= config[f].max

\* C15 witness: after a tick the voltage sits on the lower bound of a range
\* that is more than a point, with another field on its upper bound.
C15_Witness ==
    /\ call.op = "update_measurements"
    /\ config["voltage"].min < config["voltage"].max
    /\ simulator["voltage"] = config["voltage"].min
    /\ \E f \in Fields \ {"voltage"} :
          config[f].min < config[f].max /\ simulator[f] = config[f].max

\* A step in which a loop thread of the RTU runs the loop body, that is
\* update_measurements.
RtuTick ==
    /\ process = "rtu"
    /\ \E t \in ThreadIds : threads[t] = "work" /\ threads'[t] # "work"

\* C16: the ring starts empty, never holds more than RingCapacity samples,
\* and every tick leaves in it the old ring with the tick's sample appended
\* last and cut to the RingCapacity most recent; nothing else changes it.
C16_RingHoldsMostRecent ==
    /\ measurement_history = << >>
    /\ [](Len(measurement_history) <= RingCapacity)
    /\ [][/\ RtuTick =>
               measurement_history' =
                   LastN(Append(measurement_history, call'.sample), RingCapacity)
          /\ measurement_history' # measurement_history => RtuTick]_vars

\* C16 witness: a tick has just pushed the oldest sample out of a full ring
\* that holds samples of different times.
C16_Witness ==
    /\ call.op = "update_measurements"
    /\ call.trimmed
    /\ Len(measurement_history) = RingCapacity
    /\ measurement_history[RingCapacity] = call.sample
    /\ measurement_history[1] # call.sample

\* C17: in the answer of get_current_status, latest_measurement is the most
\* recent sample recorded for the outstation, and is null only while no
\* sample has been recorded for it.
C17_LatestIsLastRecorded ==
    call.op = "get_current_status" =>
        \A o \in Outstations :
            IF measurement_data[o] = << >>
            THEN call.status[o].latest_measurement = None
            ELSE call.status[o].latest_measurement =
                    measurement_data[o][Len(measurement_data[o])]

\* C18: an RTU built when pydnp3 is missing, or when its initialisation
\* raises, holds the stand-in outstation; start() sets the stand-in running,
\* raises the running flag and spawns the tick loop, and the stand-in stays
\* running.
C18_StandInOnBindingFailure ==
    /\ [](process = "rtu" => outstation.kind = "mock")
    /\ [][(process = "rtu" /\ Start) =>
              /\ outstation_running'
              /\ running'
              /\ \E t \in ThreadIds : threads[t] = "unborn" /\ threads'[t] = "while"]_vars
    /\ [][outstation_running => outstation_running']_vars

\* C18 witness: an RTU whose DNP3 initialisation raised has been started and
\* its loop has taken a sample.
C18_Witness ==
    /\ process = "rtu"
    /\ outstation.binding = "init_raises"
    /\ outstation_running
    /\ call.op = "update_measurements"
    /\ measurement_history # << >>

\* C19: a tick whose append to the log file fails still keeps the sample as
\* the newest entry of the ring and returns it, leaves the running flag as it
\* was and takes the loop thread on to its sleep; from there the thread
\* reaches the next tick unless the RTU is stopped.
C19_WriteFailureIsIgnored ==
    /\ [][(RtuTick /\ ~call'.written) =>
              /\ measurement_history' # << >>
              /\ measurement_history'[Len(measurement_history')] = call'.sample
              /\ running' = running
              /\ \E t \in ThreadIds : threads[t] = "work" /\ threads'[t] = "sleep"]_vars
    /\ \A t \in ThreadIds :
          (/\ process = "rtu"
           /\ threads[t] = "sleep"
           /\ call.op = "update_measurements"
           /\ ~call.written) ~> (threads[t] = "work" \/ ~running)

\* C19 witness: the only loop thread is back in the loop body after a tick
\* whose write failed.
C19_Witness ==
    /\ process = "rtu"
    /\ running
    /\ call.op = "update_measurements"
    /\ ~call.written
    /\ threads[1] = "work"
    /\ \A t \in ThreadIds \ {1} : threads[t] = "unborn"

Abs(x) == IF x < 0 THEN 0 - x ELSE x

C21_AtMostOneLoop == Cardinality(LiveThreads) <= 1

\* C21, the case the claim singles out: a start() that follows a stop() the
\* sleeping loop has not yet observed leaves that loop alive beside the new one.
C21_RestartLeavesOneLoop ==
    [][(~running /\ Start) => Cardinality(LiveThreads') <= 1]_vars

\* C22: total_records always equals the number of snapshot entries the
\* logger has appended to the audit log.
C22_RecordsEqualEntries == stats.total_records = audit_entries

====
